---- MODULE Spec2Model ----
(***************************************************************************)
(* hlscp: mirror of an HLS rendition set (playlists and segments) into a   *)
(* local directory.                                                        *)
(*                                                                         *)
(* A text (a Rust String) is a sequence of atoms.  An atom is a run of     *)
(* characters that the operations of the program never split: a tag name,  *)
(* a file name, a scheme, a single delimiter character.  Prefix and        *)
(* substring tests of the code are prefix and contiguous-subsequence tests *)
(* on atoms; "#EXT-X-MEDIA-SEQUENCE" is the atoms "#", "EXT-X-MEDIA" and   *)
(* "-SEQUENCE", so that the tag names keep the prefix relations they have  *)
(* as strings.                                                             *)
(***************************************************************************)
EXTENDS Integers, Sequences, FiniteSets, TLC

\* ------------------------------------------------------------------ atoms
NL == "\n"
CR == "\r"
SP == " "
QUOTE == "\""
\* the literal prefix of the regex URI="([^"]+)"
URIQ == "URI=\""
HASH == "#"
SLASH == "/"
COLON == ":"
QMARK == "?"

\* char::is_whitespace over the atoms of the model (str::trim)
Whitespace == {SP, CR, NL, "\t"}
\* the atoms that hold a double quote character
QuoteAtoms == {QUOTE, URIQ}
\* schemes the url crate treats as special (authority follows, path is
\* hierarchical) and schemes it does not
SpecialSchemes == {"https:"}
NonSpecialSchemes == {"urn:"}

\* ------------------------------------------------------- string helpers
\* str::starts_with
StartsWith(s, p) ==
  /\ Len(p) <= Len(s)
  /\ SubSeq(s, 1, Len(p)) = p

\* str::contains
Contains(s, p) ==
  \E i \in 1..(Len(s) - Len(p) + 1) : SubSeq(s, i, i + Len(p) - 1) = p

RECURSIVE TrimStart(_)
TrimStart(s) ==
  IF s # <<>> /\ Head(s) \in Whitespace THEN TrimStart(Tail(s)) ELSE s

RECURSIVE TrimEnd(_)
TrimEnd(s) ==
  IF s # <<>> /\ s[Len(s)] \in Whitespace
  THEN TrimEnd(SubSeq(s, 1, Len(s) - 1))
  ELSE s

\* str::trim
Trim(s) == TrimEnd(TrimStart(s))

\* one line of str::lines(): a trailing "\r" goes with the "\n" it precedes
StripCR(s) ==
  IF s # <<>> /\ s[Len(s)] = CR THEN SubSeq(s, 1, Len(s) - 1) ELSE s

RECURSIVE LinesRec(_, _, _, _)
LinesRec(s, i, cur, acc) ==
  IF i > Len(s)
  THEN IF cur = <<>> THEN acc ELSE Append(acc, cur)
  ELSE IF s[i] = NL
       THEN LinesRec(s, i + 1, <<>>, Append(acc, StripCR(cur)))
       ELSE LinesRec(s, i + 1, Append(cur, s[i]), acc)

\* str::lines(): split at "\n" or "\r\n"; a final line terminator opens no
\* further, empty line
Lines(s) == LinesRec(s, 1, <<>>, <<>>)

RECURSIVE JoinLines(_)
\* [String]::join("\n")
JoinLines(ls) ==
  IF ls = <<>> THEN <<>>
  ELSE IF Len(ls) = 1 THEN ls[1]
  ELSE ls[1] \o <<NL>> \o JoinLines(Tail(ls))

RECURSIVE SplitOn(_, _, _, _)
SplitOn(s, sep, cur, acc) ==
  IF s = <<>> THEN Append(acc, cur)
  ELSE IF Head(s) = sep
       THEN SplitOn(Tail(s), sep, <<>>, Append(acc, cur))
       ELSE SplitOn(Tail(s), sep, Append(cur, Head(s)), acc)

RECURSIVE Flatten(_, _)
\* the pieces of ss joined by sep
Flatten(ss, sep) ==
  IF ss = <<>> THEN <<>>
  ELSE IF Len(ss) = 1 THEN ss[1]
  ELSE ss[1] \o <<sep>> \o Flatten(Tail(ss), sep)

\* index of the first atom of s at or after i that is in set, 0 if none
RECURSIVE FirstIn(_, _, _)
FirstIn(s, i, set) ==
  IF i > Len(s) THEN 0
  ELSE IF s[i] \in set THEN i
  ELSE FirstIn(s, i + 1, set)

\* --------------------------------------------------------------- url::Url
\* A parsed Url: scheme, host, the segments of a hierarchical path and the
\* query.  hasSegs is FALSE for a cannot-be-a-base URL ("urn:x"), whose
\* path_segments() is None.
BadUrl ==
  [ok |-> FALSE, scheme |-> "", host |-> <<>>, segs |-> <<>>,
   hasSegs |-> FALSE, query |-> <<>>]

RECURSIVE RemoveAtoms(_, _)
RemoveAtoms(s, set) ==
  IF s = <<>> THEN <<>>
  ELSE IF Head(s) \in set THEN RemoveAtoms(Tail(s), set)
  ELSE <<Head(s)>> \o RemoveAtoms(Tail(s), set)

\* the parser drops leading and trailing C0 controls and spaces and skips
\* every tab and newline inside its input
UrlInput(s) == Trim(RemoveAtoms(s, {NL, CR, "\t"}))

RECURSIVE SkipSlashes(_)
SkipSlashes(s) ==
  IF s # <<>> /\ Head(s) = SLASH THEN SkipSlashes(Tail(s)) ELSE s

RECURSIVE CountSlashes(_)
CountSlashes(s) ==
  IF s # <<>> /\ Head(s) = SLASH THEN 1 + CountSlashes(Tail(s)) ELSE 0

\* percent-encoding of the path: the atoms that are not path characters
PathEncode(seg) ==
  [i \in 1..Len(seg) |->
     IF seg[i] = SP THEN "%20" ELSE IF seg[i] = QUOTE THEN "%22" ELSE seg[i]]

\* the segments of the path text p ("" or "/a/b"); an empty path is "/"
PathSegs(p) ==
  IF p = <<>> THEN << <<>> >>
  ELSE LET ss == SplitOn(Tail(p), SLASH, <<>>, <<>>)
       IN  [i \in 1..Len(ss) |-> PathEncode(ss[i])]

\* path and query of the text that follows the authority
PathPart(after) ==
  LET q == FirstIn(after, 1, {QMARK, HASH})
  IN  IF q = 0 THEN after ELSE SubSeq(after, 1, q - 1)

QueryPart(after) ==
  LET q == FirstIn(after, 1, {QMARK, HASH})
      h == FirstIn(after, 1, {HASH})
  IN  IF q = 0 \/ after[q] = HASH THEN <<>>
      ELSE SubSeq(after, q + 1, IF h = 0 THEN Len(after) ELSE h - 1)

\* Parser::after_double_slash: authority, then path and query
AfterDoubleSlash(scheme, rest, emptyHostOk) ==
  LET e     == FirstIn(rest, 1, {SLASH, QMARK, HASH})
      host  == IF e = 0 THEN rest ELSE SubSeq(rest, 1, e - 1)
      after == IF e = 0 THEN <<>> ELSE SubSeq(rest, e, Len(rest))
  IN  IF (host = <<>> /\ ~emptyHostOk) \/ (\E i \in 1..Len(host) : host[i] = SP)
      THEN BadUrl
      ELSE [ok |-> TRUE, scheme |-> scheme, host |-> host,
            segs |-> PathSegs(PathPart(after)), hasSegs |-> TRUE,
            query |-> QueryPart(after)]

\* Parser::parse_non_special: "urn:x" cannot be a base; "s:/p" and "s://h/p"
\* have a hierarchical path
ParseNonSpecial(scheme, rest) ==
  IF rest # <<>> /\ Head(rest) = SLASH
  THEN IF Len(rest) >= 2 /\ rest[2] = SLASH
       THEN AfterDoubleSlash(scheme, SubSeq(rest, 3, Len(rest)), TRUE)
       ELSE [ok |-> TRUE, scheme |-> scheme, host |-> <<>>,
             segs |-> PathSegs(PathPart(rest)), hasSegs |-> TRUE,
             query |-> QueryPart(rest)]
  ELSE [ok |-> TRUE, scheme |-> scheme, host |-> <<>>, segs |-> <<>>,
        hasSegs |-> FALSE, query |-> <<>>]

\* Url::parse(input): succeeds only on a text that starts with a scheme
UrlParse(input) ==
  LET s == UrlInput(input)
  IN  IF s = <<>> THEN BadUrl
      ELSE IF Head(s) \in SpecialSchemes
           THEN AfterDoubleSlash(Head(s), SkipSlashes(Tail(s)), FALSE)
      ELSE IF Head(s) \in NonSpecialSchemes
           THEN ParseNonSpecial(Head(s), Tail(s))
      ELSE BadUrl

\* Parser::parse_relative: a reference without scheme against a base
ParseRelative(s, base) ==
  IF s = <<>> THEN base
  ELSE IF Head(s) = QMARK
       THEN [base EXCEPT !.query = QueryPart(s)]
  ELSE IF Head(s) = HASH THEN base
  ELSE IF Head(s) = SLASH
       THEN IF CountSlashes(s) >= 2
            THEN AfterDoubleSlash(base.scheme, SkipSlashes(s), FALSE)
            ELSE [base EXCEPT !.segs = PathSegs(PathPart(s)),
                              !.query = QueryPart(s)]
  ELSE [base EXCEPT
          !.segs = SubSeq(base.segs, 1, Len(base.segs) - 1)
                   \o PathSegs(<<SLASH>> \o PathPart(s)),
          !.query = QueryPart(s)]

\* Url::join(input): the reference parsed with self as base
UrlJoin(base, input) ==
  LET s == UrlInput(input)
  IN  IF s # <<>> /\ Head(s) \in SpecialSchemes
      THEN IF CountSlashes(Tail(s)) < 2 /\ base.scheme = Head(s)
           THEN ParseRelative(Tail(s), base)
           ELSE AfterDoubleSlash(Head(s), SkipSlashes(Tail(s)), FALSE)
      ELSE IF s # <<>> /\ Head(s) \in NonSpecialSchemes
           THEN ParseNonSpecial(Head(s), Tail(s))
      ELSE IF ~base.hasSegs THEN BadUrl
      ELSE ParseRelative(s, base)

\* url.path_segments().and_then(|segments| segments.last()).unwrap_or(fallback)
LastSegmentOr(url, fallback) ==
  IF url.hasSegs THEN url.segs[Len(url.segs)] ELSE fallback

\* HlsCopier::resolve_url: the reference as an absolute URL if it parses as
\* one, else joined to the base; BadUrl stands for the Err of the join
resolve_url(url_str, base_url) ==
  IF UrlParse(url_str).ok THEN UrlParse(url_str) ELSE UrlJoin(base_url, url_str)

\* ---------------------------------------------------------- regex URI="([^"]+)"
\* the closing quote of a match that opens at i: the first atom after i that
\* holds a quote must be a lone quote, with at least one atom in between
UriMatchEnd(s, i) ==
  LET k == FirstIn(s, i + 1, QuoteAtoms)
  IN  IF s[i] = URIQ /\ k > i + 1 /\ s[k] = QUOTE THEN k ELSE 0

\* Regex::captures(line): group 1 of the leftmost match, <<>> when no match
\* (a match is never empty)
RECURSIVE UriCaptureFrom(_, _)
UriCaptureFrom(s, i) ==
  IF i > Len(s) THEN <<>>
  ELSE IF UriMatchEnd(s, i) # 0 THEN SubSeq(s, i + 1, UriMatchEnd(s, i) - 1)
  ELSE UriCaptureFrom(s, i + 1)

UriCapture(s) == UriCaptureFrom(s, 1)

\* ---------------------------------------------------------------- Playlist
TagMap == <<HASH, "EXT-X-MAP", COLON>>
TagStreamInf == <<HASH, "EXT-X-STREAM-INF">>
TagMedia == <<HASH, "EXT-X-MEDIA">>
TagIFrame == <<HASH, "EXT-X-I-FRAME-STREAM-INF">>

\* a trimmed line that is neither a comment nor blank
IsBareLine(line) == ~StartsWith(line, <<HASH>>) /\ line # <<>>

\* the line's references with the init-map case left out: the tag is a comment
ParseLineSkipMap(raw) ==
  IF IsBareLine(Trim(raw)) THEN <<Trim(raw)>> ELSE <<>>

\* the references one line adds in Playlist::parse
ParseLine(raw) ==
  LET line == Trim(raw)
  IN  IF StartsWith(line, TagMap)
      THEN IF UriCapture(line) # <<>> THEN <<UriCapture(line)>> ELSE <<>>
      ELSE IF IsBareLine(line) THEN <<line>> ELSE <<>>

RECURSIVE ParseLines(_)
ParseLines(ls) ==
  IF ls = <<>> THEN <<>> ELSE ParseLine(Head(ls)) \o ParseLines(Tail(ls))

\* Playlist::parse: the Playlist {content, segments, url}
parse(content, base_url) ==
  [content |-> content, segments |-> ParseLines(Lines(content)), url |-> base_url]

\* Playlist::is_master_playlist
is_master_playlist(content) ==
  \/ Contains(content, TagStreamInf)
  \/ Contains(content, TagMedia)
  \/ Contains(content, TagIFrame)

\* the entries line i of lines adds in Playlist::extract_all_playlists
ExtractLine(lines, i) ==
  LET line == Trim(lines[i])
  IN  IF StartsWith(line, TagStreamInf)
      THEN IF i + 1 <= Len(lines) /\ IsBareLine(Trim(lines[i + 1]))
           THEN <<Trim(lines[i + 1])>>
           ELSE <<>>
      ELSE IF StartsWith(line, TagMedia)
           THEN IF UriCapture(line) # <<>> THEN <<UriCapture(line)>> ELSE <<>>
      ELSE IF StartsWith(line, TagIFrame)
           THEN IF UriCapture(line) # <<>> THEN <<UriCapture(line)>> ELSE <<>>
      ELSE <<>>

RECURSIVE ExtractFrom(_, _)
ExtractFrom(lines, i) ==
  IF i > Len(lines) THEN <<>>
  ELSE ExtractLine(lines, i) \o ExtractFrom(lines, i + 1)

\* Playlist::extract_all_playlists
extract_all_playlists(content) == ExtractFrom(Lines(content), 1)

\* the replacement closure of rewrite_content's replace_all: a value that
\* parses as a URL becomes URI="<last path segment>", any other match stays
ReplaceUri(original_uri) ==
  IF UrlParse(original_uri).ok
  THEN <<URIQ>> \o LastSegmentOr(UrlParse(original_uri), original_uri) \o <<QUOTE>>
  ELSE <<URIQ>> \o original_uri \o <<QUOTE>>

\* Regex::replace_all over the whole content, leftmost non-overlapping matches
RECURSIVE ReplaceAllUris(_, _)
ReplaceAllUris(s, i) ==
  IF i > Len(s) THEN <<>>
  ELSE IF UriMatchEnd(s, i) # 0
       THEN ReplaceUri(SubSeq(s, i + 1, UriMatchEnd(s, i) - 1))
            \o ReplaceAllUris(s, UriMatchEnd(s, i) + 1)
  ELSE <<s[i]>> \o ReplaceAllUris(s, i + 1)

\* every bare line cut to what follows its last "/", URL or not
RewriteLineBasename(raw) ==
  LET line == Trim(raw)
      parts == SplitOn(line, SLASH, <<>>, <<>>)
  IN  IF IsBareLine(line) THEN parts[Len(parts)] ELSE line

\* the line pushed for one line of the second pass of rewrite_content
RewriteLine(raw) ==
  LET line == Trim(raw)
  IN  IF IsBareLine(line) /\ UrlParse(line).ok
      THEN LastSegmentOr(UrlParse(line), line)
      ELSE line

\* Playlist::rewrite_content, as a function of the playlist's content
rewrite_content(content) ==
  LET ls == Lines(ReplaceAllUris(content, 1))
  IN  JoinLines([i \in 1..Len(ls) |-> RewriteLine(ls[i])])

\* ------------------------------------------------------------ the remote
\* the source URL given on the command line (HlsCopier::new parses it)
SrcText == <<"https:", SLASH, SLASH, "h", SLASH, "d", SLASH, "m.m3u8">>
SrcUrl == UrlParse(SrcText)
V1Url == UrlParse(<<"https:", SLASH, SLASH, "h", SLASH, "d", SLASH, "v1.m3u8">>)
V2Url == UrlParse(<<"https:", SLASH, SLASH, "h", SLASH, "d", SLASH, "v2.m3u8">>)

\* reference lines of a media playlist: a relative name, an absolute URL, a
\* path-absolute reference whose basename is that of the first, an init map
\* with an absolute URI, and a reference that no base resolves
RefRelative == <<"a.ts">>
RefAbsolute == <<"https:", SLASH, SLASH, "h", SLASH, "d", SLASH, "b.ts">>
RefOtherDir == <<SLASH, "e", SLASH, "a.ts">>
RefInitMap ==
  <<HASH, "EXT-X-MAP", COLON, URIQ,
    "https:", SLASH, SLASH, "h", SLASH, "d", SLASH, "init.mp4", QUOTE>>
RefUnresolvable == <<SLASH, SLASH>>
RefLines == {RefRelative, RefAbsolute, RefOtherDir, RefInitMap, RefUnresolvable}

MaxSegs == 2

RECURSIVE LinesToText(_)
\* the lines, each ended by "\n"
LinesToText(ls) ==
  IF ls = <<>> THEN <<>> ELSE Head(ls) \o <<NL>> \o LinesToText(Tail(ls))

RefLists == UNION {[1..n -> RefLines] : n \in 0..MaxSegs}

LineExtM3U == <<HASH, "EXTM3U">>
LineMediaSequence == <<HASH, "EXT-X-MEDIA", "-SEQUENCE", COLON, "0">>
LineStreamInf == <<HASH, "EXT-X-STREAM-INF", COLON, "BANDWIDTH=1">>
LineMediaV2 ==
  <<HASH, "EXT-X-MEDIA", COLON, "TYPE=AUDIO,", URIQ, "v2.m3u8", QUOTE>>
LineIFrameV2 ==
  <<HASH, "EXT-X-I-FRAME-STREAM-INF", COLON, URIQ,
    "https:", SLASH, SLASH, "h", SLASH, "d", SLASH, "v2.m3u8", QUOTE>>

\* media playlists: a header, optionally the media-sequence tag, references
MediaTexts ==
  {LinesToText(<<LineExtM3U>> \o refs) : refs \in RefLists}
MediaSequenceTexts ==
  {LinesToText(<<LineExtM3U, LineMediaSequence>> \o refs) : refs \in RefLists}

\* master playlists: a variant by stream-info and bare line, a rendition by
\* media tag or i-frame tag with a quoted URI
MasterTexts ==
  { LinesToText(<<LineExtM3U, LineStreamInf, <<"v1.m3u8">>, LineMediaV2>>),
    LinesToText(<<LineExtM3U, LineIFrameV2, LineStreamInf,
                  <<"https:", SLASH, SLASH, "h", SLASH, "d", SLASH, "v1.m3u8">> >>),
    LinesToText(<<LineExtM3U, LineStreamInf, LineStreamInf, <<"v1.m3u8">> >>) }

DefaultMedia == LinesToText(<<LineExtM3U, RefAbsolute>>)

\* what the server holds: the three playlists; it does not change
Remotes ==
  {[src |-> m, v1 |-> t, v2 |-> DefaultMedia] : m \in MasterTexts, t \in MediaTexts}
  \cup
  {[src |-> t, v1 |-> DefaultMedia, v2 |-> DefaultMedia] :
     t \in MediaTexts \cup MediaSequenceTexts}

\* the client reaches https://h only
Fetchable(url) == url.ok /\ url.scheme = "https:" /\ url.host = <<"h">>

\* the body the server answers for url (reqwest returns the body of any
\* status: an unknown path answers the error page)
Body(url, r) ==
  IF url = SrcUrl THEN r.src
  ELSE IF url = V1Url THEN r.v1
  ELSE IF url = V2Url THEN r.v2
  ELSE IF url.segs = << <<"d">>, <<"a.ts">> >> THEN <<"A1", "A2">>
  ELSE IF url.segs = << <<"d">>, <<"b.ts">> >> THEN <<"B1">>
  ELSE IF url.segs = << <<"e">>, <<"a.ts">> >> THEN <<"E1">>
  ELSE IF url.segs = << <<"d">>, <<"init.mp4">> >> THEN <<"I1", "I2", "I3">>
  ELSE <<"404">>

\* ---------------------------------------------------------- file system
\* the destination directory: file name -> bytes
FsHas(d, f) == f \in DOMAIN d

FsPut(d, f, bytes) ==
  [x \in DOMAIN d \cup {f} |-> IF x = f THEN bytes ELSE d[x]]

\* the file opened for appending: the bytes follow what the file holds
FsAppend(d, f, bytes) ==
  FsPut(d, f, (IF FsHas(d, f) THEN d[f] ELSE <<>>) \o bytes)

\* std::fs::write: create or truncate, then write all the bytes
FsWrite(d, f, bytes) == FsPut(d, f, bytes)

\* tokio::fs::File::create: create or truncate
FsCreate(d, f) == FsPut(d, f, <<>>)

\* write_all on the handle File::create returned: from offset 0, over
\* whatever the file holds at that moment
FsWriteAt0(d, f, bytes) ==
  LET old == IF FsHas(d, f) THEN d[f] ELSE <<>>
  IN  FsPut(d, f, bytes \o SubSeq(old, Len(bytes) + 1, Len(old)))

\* dest_dir.join(filename) names a file: for an empty name it is the directory
Writable(f) == f # <<>>

\* ------------------------------------------------------------------ state
VARIABLES
  remote,          \* the server's playlists
  disk,            \* the destination directory
  pc,              \* where copy_hls stands
  master_content,  \* copy_hls: the fetched source text
  branch,          \* copy_hls: "master" or "media" once classified
  queue,           \* copy_hls: the stream_playlists still to process
  k,               \* index of the sub-playlist in process (0: the source itself)
  pl,              \* process_playlist: its arguments and the parsed Playlist
  tasks,           \* the download_segment futures of join_all
  result,          \* what copy_hls returned: "none", "ok", "err"
  fetched,         \* history: the URLs whose body was received
  saved,           \* history: [url, file, kind] of every file written
  started,         \* history: sub-playlist indices with a fetch or write
  finished,        \* history: sub-playlist indices whose rewritten file is written
  errs,            \* history: [at, what] of every error that occurred
  second,          \* TRUE in the second run of the program
  prev,            \* the directory as the first run left it
  t_content,       \* text functions: the input text
  t_stage,         \* text functions: which function was applied
  t_out,           \* text functions: its result
  t_prev           \* text functions: the result before

runVars ==
  <<disk, pc, master_content, branch, queue, k, pl, tasks, result,
    fetched, saved, started, finished, errs>>
textVars == <<t_content, t_stage, t_out, t_prev>>
vars == <<remote, runVars, second, prev, textVars>>

NoPlaylist == [url |-> BadUrl, local_filename |-> <<>>, content |-> <<>>, segments |-> <<>>]

\* master_filename: the last path segment of the source URL
master_filename == LastSegmentOr(SrcUrl, <<"playlist.m3u8">>)

\* the state in which main calls copy_hls on directory d
RunStart(d) ==
  /\ disk = d
  /\ pc = "start"
  /\ master_content = <<>>
  /\ branch = "none"
  /\ queue = <<>>
  /\ k = 0
  /\ pl = NoPlaylist
  /\ tasks = <<>>
  /\ result = "none"
  /\ fetched = {}
  /\ saved = {}
  /\ started = {}
  /\ finished = {}
  /\ errs = {}

TextIdle ==
  /\ t_content = <<>>
  /\ t_stage = "off"
  /\ t_out = <<>>
  /\ t_prev = <<>>

Init ==
  /\ remote \in Remotes
  /\ RunStart(<<>>)
  /\ second = FALSE
  /\ prev = <<>>
  /\ TextIdle

\* an Err returned through `?` up to main: copy_hls ends with the error
Fail(what) ==
  /\ pc' = "failed"
  /\ result' = "err"
  /\ errs' = errs \cup {[at |-> k, what |-> what]}

\* copy_hls, line 138: create the destination directory
CreateDestDir ==
  /\ pc = "start"
  /\ \/ /\ pc' = "fetch_master"
        /\ UNCHANGED <<result, errs>>
     \/ Fail("create_dir")
  /\ UNCHANGED <<remote, disk, master_content, branch, queue, k, pl, tasks,
                 fetched, saved, started, finished, second, prev, textVars>>

\* copy_hls, line 144: fetch_playlist(&self.base_url)
FetchMaster ==
  /\ pc = "fetch_master"
  /\ \/ /\ Fetchable(SrcUrl)
        /\ master_content' = Body(SrcUrl, remote)
        /\ fetched' = fetched \cup {SrcUrl}
        /\ pc' = "write_master"
        /\ UNCHANGED <<result, errs>>
     \/ /\ Fail("fetch")
        /\ UNCHANGED <<master_content, fetched>>
  /\ UNCHANGED <<remote, disk, branch, queue, k, pl, tasks,
                 saved, started, finished, second, prev, textVars>>

\* the head of the for loop of copy_hls with q left and idx sub-playlists
\* begun: resolve the next reference and call process_playlist, which stands
\* at its fetch; an empty q ends copy_hls with Ok
LoopHead(q, idx) ==
  IF q = <<>>
  THEN [pc |-> "done", pl |-> NoPlaylist, queue |-> <<>>, k |-> idx]
  ELSE LET u == resolve_url(Head(q), SrcUrl)
       IN  IF ~u.ok
           THEN [pc |-> "failed", pl |-> NoPlaylist, queue |-> Tail(q), k |-> idx + 1]
           ELSE [pc |-> "pp_fetch",
                 pl |-> [url |-> u, local_filename |-> LastSegmentOr(u, Head(q)),
                         content |-> <<>>, segments |-> <<>>],
                 queue |-> Tail(q), k |-> idx + 1]

\* the control state taken from a record of LoopHead
Goto(next) ==
  /\ pc' = next.pc
  /\ pl' = next.pl
  /\ queue' = next.queue
  /\ k' = next.k
  /\ result' = CASE next.pc = "done" -> "ok"
                 [] next.pc = "failed" -> "err"
                 [] OTHER -> result
  /\ errs' = IF next.pc = "failed"
             THEN errs \cup {[at |-> next.k, what |-> "resolve"]}
             ELSE errs

\* copy_hls, lines 146-160: write the raw source text, classify it, and enter
\* the first process_playlist up to its fetch
WriteMaster ==
  /\ pc = "write_master"
  /\ \/ /\ Writable(master_filename)
        /\ disk' = FsWrite(disk, master_filename, master_content)
        /\ saved' = saved \cup {[url |-> SrcUrl, file |-> master_filename, kind |-> "raw"]}
        /\ IF is_master_playlist(master_content)
           THEN /\ branch' = "master"
                /\ Goto(LoopHead(extract_all_playlists(master_content), 0))
           ELSE /\ branch' = "media"
                /\ Goto([pc |-> "pp_fetch",
                         pl |-> [url |-> SrcUrl, local_filename |-> master_filename,
                                 content |-> <<>>, segments |-> <<>>],
                         queue |-> <<>>, k |-> 0])
     \/ /\ Fail("write")
        /\ UNCHANGED <<disk, saved, branch, pl, queue, k>>
  /\ UNCHANGED <<remote, master_content, tasks, fetched, started, finished,
                 second, prev, textVars>>

\* process_playlist, lines 128-134: rewrite the content and write it under
\* local_filename; Ok returns to copy_hls, which goes on with the next
\* sub-playlist or returns Ok
WriteRewritten(content) ==
  \/ /\ Writable(pl.local_filename)
     /\ disk' = FsWrite(disk, pl.local_filename, rewrite_content(content))
     /\ saved' = saved \cup
          {[url |-> pl.url, file |-> pl.local_filename, kind |-> "rewritten"]}
     /\ finished' = finished \cup {k}
     /\ IF branch = "media"
        THEN Goto([pc |-> "done", pl |-> NoPlaylist, queue |-> <<>>, k |-> k])
        ELSE Goto(LoopHead(queue, k))
  \/ /\ Fail("write")
     /\ UNCHANGED <<disk, saved, finished, pl, queue, k>>

\* the (url, filename) pair process_playlist pushes for one reference
SegmentData(segment_url_str, base) ==
  LET u == resolve_url(segment_url_str, base)
  IN  [url |-> u, filename |-> LastSegmentOr(u, segment_url_str)]

\* a download_segment future as join_all first polls it: at its send().await
NewTask(sd, owner) ==
  [url |-> sd.url, filename |-> sd.filename, st |-> "send", bytes |-> <<>>,
   owner |-> owner]

\* process_playlist, lines 98-124: fetch and parse the playlist; without
\* segments go on to the write, else resolve every reference and start one
\* download per entry of the list
FetchPlaylist ==
  /\ pc = "pp_fetch"
  /\ \/ /\ Fetchable(pl.url)
        /\ fetched' = fetched \cup {pl.url}
        /\ started' = started \cup {k}
        /\ LET playlist == parse(Body(pl.url, remote), pl.url)
               data == [i \in 1..Len(playlist.segments) |->
                          SegmentData(playlist.segments[i], playlist.url)]
           IN  IF playlist.segments = <<>>
               THEN /\ WriteRewritten(playlist.content)
                    /\ UNCHANGED tasks
               ELSE IF \E i \in 1..Len(data) : ~data[i].url.ok
               THEN /\ Fail("resolve")
                    /\ UNCHANGED <<disk, saved, finished, pl, queue, k, tasks>>
               ELSE /\ tasks' = tasks \o [i \in 1..Len(data) |-> NewTask(data[i], k)]
                    /\ pl' = [pl EXCEPT !.content = playlist.content,
                                        !.segments = playlist.segments]
                    /\ pc' = "pp_join"
                    /\ UNCHANGED <<disk, saved, finished, queue, k, result, errs>>
     \/ /\ Fail("fetch")
        /\ UNCHANGED <<disk, saved, finished, pl, queue, k, tasks, fetched, started>>
  /\ UNCHANGED <<remote, master_content, branch, second, prev, textVars>>

Resolved(t) == t.st \in {"ok", "err"}

\* a step of download_segment i ends in Err: the future resolves, the
\* others go on
TaskFail(i, what) ==
  /\ tasks' = [tasks EXCEPT ![i].st = "err"]
  /\ errs' = errs \cup {[at |-> tasks[i].owner, what |-> what]}

\* download_segment, lines 69-73: the response arrives
TaskSend(i) ==
  /\ result = "none"
  /\ tasks[i].st = "send"
  /\ \/ /\ Fetchable(tasks[i].url)
        /\ tasks' = [tasks EXCEPT ![i].st = "bytes"]
        /\ UNCHANGED errs
     \/ TaskFail(i, "fetch")
  /\ UNCHANGED <<remote, disk, pc, master_content, branch, queue, k, pl, result,
                 fetched, saved, started, finished, second, prev, textVars>>

\* download_segment, lines 75-83: the body arrives; the parent directory is
\* made
TaskBytes(i) ==
  /\ result = "none"
  /\ tasks[i].st = "bytes"
  /\ \/ /\ tasks' = [tasks EXCEPT ![i].st = "create",
                                  ![i].bytes = Body(tasks[i].url, remote)]
        /\ fetched' = fetched \cup {tasks[i].url}
        /\ UNCHANGED errs
     \/ /\ TaskFail(i, "fetch")
        /\ UNCHANGED fetched
  /\ UNCHANGED <<remote, disk, pc, master_content, branch, queue, k, pl, result,
                 saved, started, finished, second, prev, textVars>>

\* download_segment, lines 85-87: File::create
TaskCreate(i) ==
  /\ result = "none"
  /\ tasks[i].st = "create"
  /\ \/ /\ Writable(tasks[i].filename)
        /\ disk' = FsCreate(disk, tasks[i].filename)
        /\ tasks' = [tasks EXCEPT ![i].st = "write"]
        /\ UNCHANGED errs
     \/ /\ TaskFail(i, "write")
        /\ UNCHANGED disk
  /\ UNCHANGED <<remote, pc, master_content, branch, queue, k, pl, result,
                 fetched, saved, started, finished, second, prev, textVars>>

\* download_segment, lines 89-94: write_all, then Ok
TaskWrite(i) ==
  /\ result = "none"
  /\ tasks[i].st = "write"
  /\ \/ /\ disk' = FsWriteAt0(disk, tasks[i].filename, tasks[i].bytes)
        /\ saved' = saved \cup
             {[url |-> tasks[i].url, file |-> tasks[i].filename, kind |-> "segment"]}
        /\ tasks' = [tasks EXCEPT ![i].st = "ok"]
        /\ UNCHANGED errs
     \/ /\ TaskFail(i, "write")
        /\ UNCHANGED <<disk, saved>>
  /\ UNCHANGED <<remote, pc, master_content, branch, queue, k, pl, result,
                 fetched, started, finished, second, prev, textVars>>

\* the join with the Err of the downloads dropped
JoinAllIgnoreErrors(ts) ==
  IF \E i \in 1..Len(ts) : ~Resolved(ts[i]) THEN "pending" ELSE "ok"

\* the join that returns with the first download that succeeds
JoinAny(ts) ==
  IF \E i \in 1..Len(ts) : ts[i].st = "ok" THEN "ok"
  ELSE IF \E i \in 1..Len(ts) : ~Resolved(ts[i]) THEN "pending"
  ELSE "err"

\* join_all(...).await.into_iter().collect::<Result<Vec<_>>>(): pending until
\* every future has resolved, then Err if one of them is
JoinAllResult(ts) ==
  IF \E i \in 1..Len(ts) : ~Resolved(ts[i]) THEN "pending"
  ELSE IF \E i \in 1..Len(ts) : ts[i].st = "err" THEN "err"
  ELSE "ok"

IsUnresolved(t) == ~Resolved(t)

\* the join that removes the files of its batch when a download failed
JoinAllRollback ==
  /\ pc = "pp_join"
  /\ JoinAllResult(tasks) # "pending"
  /\ IF JoinAllResult(tasks) = "err"
     THEN /\ pc' = "failed"
          /\ result' = "err"
          /\ disk' = [f \in DOMAIN disk \ {tasks[i].filename : i \in 1..Len(tasks)}
                        |-> disk[f]]
          /\ UNCHANGED <<saved, finished, pl, queue, k, tasks, errs>>
     ELSE /\ tasks' = SelectSeq(tasks, IsUnresolved)
          /\ WriteRewritten(pl.content)
  /\ UNCHANGED <<remote, master_content, branch, fetched, started,
                 second, prev, textVars>>

\* process_playlist, lines 124-134: the join returns; on Err process_playlist
\* and copy_hls return it, on Ok the rewritten playlist is written
JoinAll ==
  /\ pc = "pp_join"
  /\ JoinAllResult(tasks) # "pending"
  /\ IF JoinAllResult(tasks) = "err"
     THEN /\ pc' = "failed"
          /\ result' = "err"
          /\ UNCHANGED <<disk, saved, finished, pl, queue, k, tasks, errs>>
     ELSE /\ tasks' = SelectSeq(tasks, IsUnresolved)
          /\ WriteRewritten(pl.content)
  /\ UNCHANGED <<remote, master_content, branch, fetched, started,
                 second, prev, textVars>>

\* the program is run once more on the same source, into the directory the
\* first run filled or into a new one
Rerun ==
  /\ pc = "done"
  /\ ~second
  /\ second' = TRUE
  /\ prev' = disk
  /\ disk' \in {disk, <<>>}
  /\ pc' = "start"
  /\ master_content' = <<>>
  /\ branch' = "none"
  /\ queue' = <<>>
  /\ k' = 0
  /\ pl' = NoPlaylist
  /\ tasks' = <<>>
  /\ result' = "none"
  /\ fetched' = {}
  /\ saved' = {}
  /\ started' = {}
  /\ finished' = {}
  /\ errs' = {}
  /\ UNCHANGED <<remote, textVars>>

Next ==
  \/ CreateDestDir
  \/ FetchMaster
  \/ WriteMaster
  \/ FetchPlaylist
  \/ \E i \in 1..Len(tasks) : TaskSend(i)
  \/ \E i \in 1..Len(tasks) : TaskBytes(i)
  \/ \E i \in 1..Len(tasks) : TaskCreate(i)
  \/ \E i \in 1..Len(tasks) : TaskWrite(i)
  \/ JoinAll
  \/ Rerun

Spec == Init /\ [][Next]_vars

\* ------------------------------------------------- the text functions alone
\* lines a playlist text is made of: tags without URI, blank and padded
\* lines, bare references (relative, with a directory, absolute, with a
\* last segment that is itself scheme-like, not hierarchical), and tags with
\* a quoted URI (relative, absolute, and one whose value runs over a line
\* break)
LineExtInf == <<HASH, "EXTINF", COLON, "4,">>
LinePadded == <<SP, "a.ts", SP>>
LineBlank == <<>>
LineRelDir == <<"e", SLASH, "a.ts">>
LineSchemeLike == <<"https:", SLASH, SLASH, "h", SLASH, "d", SLASH, "https:", "x">>
LineOpaque == <<"urn:", "x">>
LineMapBroken ==
  <<HASH, "EXT-X-MAP", COLON, URIQ,
    "https:", SLASH, SLASH, "h", SLASH, "d", SLASH, NL, "a.ts", QUOTE>>

\* a media tag without URI, and a media-sequence tag that carries one
LineMediaNoUri == <<HASH, "EXT-X-MEDIA", COLON, "TYPE=AUDIO">>
LineMediaSequenceUri ==
  <<HASH, "EXT-X-MEDIA", "-SEQUENCE", COLON, "0,", URIQ, "v2.m3u8", QUOTE>>

TextLines ==
  { LineExtInf, LinePadded, LineBlank, RefRelative, LineRelDir, RefAbsolute,
    LineSchemeLike, LineOpaque, RefInitMap, LineMapBroken,
    LineStreamInf, LineMediaV2, LineIFrameV2, LineMediaSequence,
    LineMediaNoUri, LineMediaSequenceUri }

MaxLines == 3

RECURSIVE JoinWith(_, _, _)
\* the lines ended by eol, the last one by last
JoinWith(ls, eol, last) ==
  IF ls = <<>> THEN <<>>
  ELSE IF Len(ls) = 1 THEN ls[1] \o last
  ELSE ls[1] \o eol \o JoinWith(Tail(ls), eol, last)

\* line-ending styles: "\n", "\r\n", and "\n" with no final newline
Styles == {"lf", "crlf", "lf-open"}

TextOf(ls, style) ==
  CASE style = "lf" -> JoinWith(ls, <<NL>>, <<NL>>)
    [] style = "crlf" -> JoinWith(ls, <<CR, NL>>, <<CR, NL>>)
    [] style = "lf-open" -> JoinWith(ls, <<NL>>, <<>>)

InitText ==
  /\ remote = [src |-> <<>>, v1 |-> <<>>, v2 |-> <<>>]
  /\ RunStart(<<>>)
  /\ second = FALSE
  /\ prev = <<>>
  /\ \E n \in 0..MaxLines : \E ls \in [1..n -> TextLines] : \E style \in Styles :
       t_content = TextOf(ls, style)
  /\ t_stage = "input"
  /\ t_out = <<>>
  /\ t_prev = <<>>

\* playlist.rewrite_content() on a Playlist of the text
ApplyRewrite ==
  /\ t_stage = "input"
  /\ t_stage' = "rewritten"
  /\ t_out' = rewrite_content(parse(t_content, SrcUrl).content)
  /\ UNCHANGED <<remote, runVars, second, prev, t_content, t_prev>>

\* rewrite_content on a Playlist of the rewritten text
ApplyRewriteAgain ==
  /\ t_stage = "rewritten"
  /\ t_stage' = "rewritten_again"
  /\ t_prev' = t_out
  /\ t_out' = rewrite_content(parse(t_out, SrcUrl).content)
  /\ UNCHANGED <<remote, runVars, second, prev, t_content>>

\* Playlist::is_master_playlist on the text
ApplyIsMaster ==
  /\ t_stage = "input"
  /\ t_stage' = "classified"
  /\ t_out' = is_master_playlist(t_content)
  /\ UNCHANGED <<remote, runVars, second, prev, t_content, t_prev>>

\* Playlist::parse on the text: its segments
ApplyParse ==
  /\ t_stage = "input"
  /\ t_stage' = "parsed"
  /\ t_out' = parse(t_content, SrcUrl).segments
  /\ UNCHANGED <<remote, runVars, second, prev, t_content, t_prev>>

\* Playlist::extract_all_playlists on the text
ApplyExtract ==
  /\ t_stage = "input"
  /\ t_stage' = "extracted"
  /\ t_out' = extract_all_playlists(t_content)
  /\ UNCHANGED <<remote, runVars, second, prev, t_content, t_prev>>

NextText ==
  \/ ApplyRewrite
  \/ ApplyRewriteAgain
  \/ ApplyIsMaster
  \/ ApplyParse
  \/ ApplyExtract

SpecText == InitText /\ [][NextText]_vars

\* ============================================================ properties
\* what the properties speak of, stated on the text and not by the code's tests

\* the text has a line that is a stream-info, media or i-frame-stream tag
IsTagLine(line, name) == StartsWith(Trim(line), <<HASH, name, COLON>>)

HasMasterTag(text) ==
  \E i \in 1..Len(Lines(text)) :
    \/ IsTagLine(Lines(text)[i], "EXT-X-STREAM-INF")
    \/ IsTagLine(Lines(text)[i], "EXT-X-MEDIA")
    \/ IsTagLine(Lines(text)[i], "EXT-X-I-FRAME-STREAM-INF")

\* the quoted URI attribute values of a text
RECURSIVE UriValuesFrom(_, _)
UriValuesFrom(s, i) ==
  IF i > Len(s) THEN {}
  ELSE IF UriMatchEnd(s, i) # 0
       THEN {SubSeq(s, i + 1, UriMatchEnd(s, i) - 1)}
            \cup UriValuesFrom(s, UriMatchEnd(s, i) + 1)
  ELSE UriValuesFrom(s, i + 1)

\* the references of a playlist text: its bare lines and its URI values
BareLinesOf(text) ==
  {Trim(Lines(text)[i]) : i \in {j \in 1..Len(Lines(text)) : IsBareLine(Trim(Lines(text)[j]))}}

ReferencesOf(text) == BareLinesOf(text) \cup UriValuesFrom(text, 1)

SavedFiles == {s.file : s \in saved}
PlaylistFiles == {s.file : s \in {x \in saved : x.kind \in {"raw", "rewritten"}}}

\* url was fetched and written into the directory in this run
Mirrored(url) ==
  /\ url \in fetched
  /\ \E s \in saved : s.url = url /\ FsHas(disk, s.file)

\* the media playlists of the tree of the source, as [url, text]
MediaPlaylistsOf(r) ==
  IF HasMasterTag(r.src)
  THEN {[url |-> resolve_url(ref, SrcUrl),
         text |-> Body(resolve_url(ref, SrcUrl), r)] :
          ref \in {extract_all_playlists(r.src)[i] :
                     i \in 1..Len(extract_all_playlists(r.src))}}
  ELSE {[url |-> SrcUrl, text |-> r.src]}

SegmentUrlsOf(p) ==
  {resolve_url(parse(p.text, p.url).segments[i], p.url) :
     i \in 1..Len(parse(p.text, p.url).segments)}

\* C1: after a successful run every reference of every playlist file written
\* (bare line or quoted URI value) is the bare name of a file this run saved.
\* Stated for the sources that copy_hls classifies as their tags say, so that
\* the classification (C8) plays no part in it.
C1_PlaylistsLocalised ==
  (pc = "done" /\ (branch = "master" <=> HasMasterTag(master_content))) =>
    \A f \in PlaylistFiles : \A ref \in ReferencesOf(disk[f]) :
      /\ Len(ref) = 1
      /\ ref \in SavedFiles

\* C2: success means the source, every sub-playlist and every segment or init
\* map of every media playlist of the tree is fetched and written; and a run
\* in which a fetch or write failed does not end in success.
C2_SuccessIsComplete ==
  /\ pc = "done" =>
       /\ Mirrored(SrcUrl)
       /\ \A p \in MediaPlaylistsOf(remote) :
            /\ Mirrored(p.url)
            /\ \A u \in SegmentUrlsOf(p) : Mirrored(u)
  /\ errs # {} => result # "ok"

\* C8: the source is taken as a master exactly if it has one of the three
\* tags; a source with none of them (a media playlist with, say, the
\* media-sequence tag) goes through the media branch: its segments are
\* downloaded and the rewritten playlist replaces the raw copy.
C8_ClassifiedByTag ==
  /\ branch # "none" => (branch = "master" <=> HasMasterTag(master_content))
  /\ (pc = "done" /\ ~HasMasterTag(remote.src)) =>
       /\ 0 \in finished
       /\ [url |-> SrcUrl, file |-> master_filename, kind |-> "rewritten"] \in saved
       /\ \A u \in SegmentUrlsOf([url |-> SrcUrl, text |-> remote.src]) : Mirrored(u)

\* the tasks of the batch in which task i runs, other than i, that write the
\* file task i writes
OtherWriters(i) ==
  {j \in 1..Len(tasks) : j # i /\ tasks[j].filename = tasks[i].filename}

C3_State ==
  \A i \in 1..Len(tasks) : tasks[i].st = "err" =>
    /\ result # "ok"
    /\ pc \in {"pp_join", "failed"}
    /\ tasks[i].owner \notin finished
    /\ [url |-> pl.url, file |-> pl.local_filename, kind |-> "rewritten"] \notin saved
    /\ \A j \in 1..Len(tasks) : tasks[j].st = "ok" =>
         /\ FsHas(disk, tasks[j].filename)
         /\ OtherWriters(j) = {} => disk[tasks[j].filename] = Body(tasks[j].url, remote)

C3_Step ==
  (\E i \in 1..Len(tasks) : tasks[i].st = "err") /\ pc' # pc =>
    /\ pc' = "failed"
    /\ result' = "err"
    /\ disk' = disk

\* C3: when a download of a batch has failed, process_playlist and copy_hls
\* end in the error whatever the other downloads did, the rewritten playlist
\* of the batch is never written, and the files of the downloads that
\* succeeded stay in the directory.
C3_FailedBatchFailsRun == []C3_State /\ [][C3_Step]_vars

\* a batch in which one download failed and another succeeded has been joined
C3_Witness ==
  /\ pc = "failed"
  /\ \E i, j \in 1..Len(tasks) : tasks[i].st = "err" /\ tasks[j].st = "ok"

C4_State ==
  /\ errs # {} => (result # "ok" /\ pc # "done")
  /\ pc = "failed" <=> result = "err"
  /\ \A e \in errs : \A j \in started : j <= e.at

C4_Step ==
  errs # {} =>
    /\ DOMAIN disk \subseteq DOMAIN disk'
    /\ Len(tasks') = Len(tasks)
    /\ \A i \in 1..Len(tasks) : tasks[i].st = "err" => tasks'[i] = tasks[i]
    /\ pc' # pc => pc' = "failed"
    /\ result = "err" => UNCHANGED <<disk, fetched, saved, started, finished, tasks>>

\* C4: an error of a fetch, a write or a resolution ends copy_hls in the
\* error: the run never succeeds, no sub-playlist after the one in which the
\* error occurred is fetched or written, the failed step is not taken again,
\* and no file is removed; once copy_hls has returned nothing changes.
C4_ErrorsEndTheRun == []C4_State /\ [][C4_Step]_vars

\* the first of two sub-playlists failed after its fetch; the second is left
C4_Witness ==
  /\ pc = "failed"
  /\ branch = "master"
  /\ k = 1
  /\ 1 \in started
  /\ queue # <<>>
  /\ disk # <<>>

\* C5: sub-playlists are processed one at a time in the order
\* extract_all_playlists gives: a sub-playlist is begun only when the
\* rewritten file of every earlier one is written, and the downloads in
\* flight all belong to one playlist.
C5_OnePlaylistAtATime ==
  /\ \A j \in started : \A i \in 1..(j - 1) : i \in finished
  /\ \A a, b \in 1..Len(tasks) :
       (~Resolved(tasks[a]) /\ ~Resolved(tasks[b])) => tasks[a].owner = tasks[b].owner
  /\ \A a \in 1..Len(tasks) : ~Resolved(tasks[a]) => tasks[a].owner = k
  /\ (branch = "master" /\ pc \in {"pp_fetch", "pp_join"}) =>
       pl.url = resolve_url(extract_all_playlists(master_content)[k], SrcUrl)

\* the second sub-playlist of a master has downloads in flight
C5_Witness ==
  /\ branch = "master"
  /\ k = 2
  /\ pc = "pp_join"
  /\ \E a \in 1..Len(tasks) : ~Resolved(tasks[a])
  /\ 1 \in finished

\* C6: two downloads of a batch that are in flight together write the same
\* path only if their URLs are distinct (and share a basename).
C6_DistinctPaths ==
  \A a, b \in 1..Len(tasks) :
    ( /\ a # b
      /\ tasks[a].owner = tasks[b].owner
      /\ ~Resolved(tasks[a])
      /\ ~Resolved(tasks[b])
      /\ tasks[a].filename = tasks[b].filename )
    => tasks[a].url # tasks[b].url

\* no playlist of the server lists two references that resolve to different
\* URLs and are saved under the same name
CollisionFree(text, base) ==
  \A i, j \in 1..Len(parse(text, base).segments) :
    LET a == SegmentData(parse(text, base).segments[i], base)
        b == SegmentData(parse(text, base).segments[j], base)
    IN  a.url # b.url => a.filename # b.filename

NoCollision(r) ==
  /\ CollisionFree(r.src, SrcUrl)
  /\ CollisionFree(r.v1, V1Url)
  /\ CollisionFree(r.v2, V2Url)

\* C7 as stated: a second run without failures, into a new directory or into
\* the one the first run filled, ends with the directory the first run left.
C7_RunsAgree == (pc = "done" /\ second) => disk = prev

\* C7: the same, when no playlist lists two different URLs with one basename.
C7_RunsAgreeWithoutCollision ==
  (pc = "done" /\ second /\ NoCollision(remote)) => disk = prev

\* a second run has ended, with downloads, on a collision-free source
C7_Witness ==
  /\ pc = "done"
  /\ second
  /\ NoCollision(remote)
  /\ \E s \in saved : s.kind = "segment"
  /\ Cardinality(DOMAIN disk) >= 3

\* ---- rewrite_content, on the texts of SpecText
\* the lines of an output of n lines joined by "\n"
OutLines(n, out) == IF n = 0 THEN <<>> ELSE SplitOn(out, NL, <<>>, <<>>)

\* a quoted URI value of the text runs over a line break
UriSpansLines(text) ==
  \E i \in 1..Len(text) :
    /\ UriMatchEnd(text, i) # 0
    /\ \E j \in i..UriMatchEnd(text, i) : text[j] = NL

\* the line has a quoted URI attribute whose value parses as an absolute URL
HasAbsoluteUri(line) ==
  \E v \in UriValuesFrom(line, 1) : UrlParse(v).ok

\* the line without the values of its quoted URI attributes
RECURSIVE DropUriValues(_, _)
DropUriValues(s, i) ==
  IF i > Len(s) THEN <<>>
  ELSE IF UriMatchEnd(s, i) # 0
       THEN <<URIQ, QUOTE>> \o DropUriValues(s, UriMatchEnd(s, i) + 1)
  ELSE <<s[i]>> \o DropUriValues(s, i + 1)

\* the local name of a reference that parses as an absolute URL
LocalNameOf(ref) == LastSegmentOr(UrlParse(ref), ref)

\* b is line a with nothing but the values of its absolute URI attributes
\* replaced, each by its local name
OnlyUriValuesReplaced(a, b) ==
  /\ HasAbsoluteUri(a)
  /\ DropUriValues(b, 1) = DropUriValues(a, 1)
  /\ UriValuesFrom(b, 1) \subseteq
       {IF UrlParse(v).ok THEN LocalNameOf(v) ELSE v : v \in UriValuesFrom(a, 1)}

\* b is the bare absolute URL a reduced to its final path segment
BareUrlReplaced(a, b) ==
  /\ IsBareLine(a)
  /\ UrlParse(a).ok
  /\ b = LocalNameOf(a)

\* C9 as stated: as many lines out as in, in order; a line that is not a
\* bare absolute URL and has no absolute URI attribute comes out byte for byte.
C9_LinesKept ==
  t_stage = "rewritten" =>
    LET in == Lines(t_content)
        out == OutLines(Len(in), t_out)
    IN  /\ Len(out) = Len(in)
        /\ \A i \in 1..Len(in) :
             \/ out[i] = in[i]
             \/ BareUrlReplaced(in[i], out[i])
             \/ OnlyUriValuesReplaced(in[i], out[i])

\* C9: when no quoted URI value runs over a line break, as many lines out as
\* in, in order; each is the input line trimmed of leading and trailing
\* whitespace, but for a bare absolute URL (its final path segment) and a
\* line with an absolute URI attribute (that value replaced).
C9_LinesKeptTrimmed ==
  (t_stage = "rewritten" /\ ~UriSpansLines(t_content)) =>
    LET in == Lines(t_content)
        out == OutLines(Len(in), t_out)
    IN  /\ Len(out) = Len(in)
        /\ \A i \in 1..Len(in) :
             \/ out[i] = Trim(in[i])
             \/ BareUrlReplaced(Trim(in[i]), out[i])
             \/ OnlyUriValuesReplaced(Trim(in[i]), out[i])

\* a text of three lines was rewritten: one line only trimmed, one bare URL
\* reduced, one URI value replaced
C9_Witness ==
  /\ t_stage = "rewritten"
  /\ ~UriSpansLines(t_content)
  /\ Len(Lines(t_content)) = 3
  /\ LET in == Lines(t_content)
         out == OutLines(Len(in), t_out)
     IN  /\ Len(out) = 3
         /\ \E i \in 1..3 : out[i] = Trim(in[i]) /\ out[i] # in[i]
         /\ \E i \in 1..3 : BareUrlReplaced(Trim(in[i]), out[i]) /\ out[i] # in[i]
         /\ \E i \in 1..3 : OnlyUriValuesReplaced(Trim(in[i]), out[i]) /\ out[i] # in[i]

\* C10: rewriting a rewritten text yields the same text, byte for byte.
C10_Idempotent ==
  t_stage = "rewritten_again" => t_out = t_prev

\* ---- the batch after its first failure
\* after a download of the batch has failed, no download of the batch
\* receives a body, creates or writes a file, or completes
C11_Step ==
  (\E i \in 1..Len(tasks) : tasks[i].st = "err") =>
    /\ fetched' = fetched
    /\ disk' = disk
    /\ saved' = saved
    /\ \A j \in 1..Len(tasks) : tasks'[j].st = "ok" => tasks[j].st = "ok"

\* C11: once a download of a batch has failed the batch is aborted: no other
\* download of it completes a fetch or writes a file afterwards, and the run
\* fails then, not when the remaining downloads have finished.
C11_BatchAborted == [][C11_Step]_vars

\* ---- extract_all_playlists, on the texts of SpecText
\* the first quoted URI value of a line, as a list of one entry or none
RECURSIVE FirstUriValue(_, _)
FirstUriValue(s, i) ==
  IF i > Len(s) THEN <<>>
  ELSE IF UriMatchEnd(s, i) # 0 THEN <<SubSeq(s, i + 1, UriMatchEnd(s, i) - 1)>>
  ELSE FirstUriValue(s, i + 1)

\* what line i of ls emits: after a stream-info tag the next line if it is
\* neither blank nor a comment; for a media or i-frame-stream tag its URI value
EntryOf(ls, i) ==
  IF IsTagLine(ls[i], "EXT-X-STREAM-INF")
  THEN IF i < Len(ls) /\ Trim(ls[i + 1]) # <<>> /\ Head(Trim(ls[i + 1])) # HASH
       THEN <<Trim(ls[i + 1])>>
       ELSE <<>>
  ELSE IF \/ IsTagLine(ls[i], "EXT-X-MEDIA")
          \/ IsTagLine(ls[i], "EXT-X-I-FRAME-STREAM-INF")
       THEN FirstUriValue(Trim(ls[i]), 1)
  ELSE <<>>

RECURSIVE EntriesOf(_, _)
EntriesOf(ls, i) ==
  IF i > Len(ls) THEN <<>> ELSE EntryOf(ls, i) \o EntriesOf(ls, i + 1)

\* the line begins with the name of one of the three tags without being it
BeginsLikeTag(line) ==
  \E name \in {"EXT-X-STREAM-INF", "EXT-X-MEDIA", "EXT-X-I-FRAME-STREAM-INF"} :
    StartsWith(Trim(line), <<HASH, name>>) /\ ~IsTagLine(line, name)

\* C12: extract_all_playlists emits, in the order of the lines, the line
\* after each stream-info tag when that line is neither blank nor a comment,
\* and the quoted URI value of each media and i-frame-stream tag that has
\* one; a line that is none of the three tags emits nothing.
C12_ExtractByTag ==
  t_stage = "extracted" => t_out = EntriesOf(Lines(t_content), 1)

\* the same on the texts in which every line that begins with the name of
\* one of the three tags is that tag
C12_ExtractByTagOnPlainTags ==
  ( /\ t_stage = "extracted"
    /\ \A i \in 1..Len(Lines(t_content)) : ~BeginsLikeTag(Lines(t_content)[i]) )
  => t_out = EntriesOf(Lines(t_content), 1)

\* ---- Playlist::parse, on the texts of SpecText
\* what one line contributes: the URI value of an init-map tag if it has
\* one, the trimmed line if it is neither blank nor a comment
RefsOfLine(raw) ==
  IF StartsWith(Trim(raw), <<HASH, "EXT-X-MAP", COLON>>)
  THEN FirstUriValue(Trim(raw), 1)
  ELSE IF Trim(raw) # <<>> /\ Head(Trim(raw)) # HASH THEN <<Trim(raw)>>
  ELSE <<>>

RECURSIVE RefsOf(_, _)
RefsOf(ls, i) ==
  IF i > Len(ls) THEN <<>> ELSE RefsOfLine(ls[i]) \o RefsOf(ls, i + 1)

\* C13: the references Playlist::parse returns (ApplyParse has no failing
\* outcome: its one fallible call compiles a constant pattern) are, in the
\* order of the lines and with duplicates kept, the quoted URI value of each
\* init-map line that has one and each other line that is neither blank nor
\* a comment, trimmed; parsing the text again gives the same list.
C13_ParseReferences ==
  t_stage = "parsed" =>
    /\ t_out = RefsOf(Lines(t_content), 1)
    /\ t_out = parse(t_content, SrcUrl).segments

\* a text of an init map and the same reference twice was parsed
C13_Witness ==
  /\ t_stage = "parsed"
  /\ Len(Lines(t_content)) = 3
  /\ Len(t_out) = 3
  /\ StartsWith(Trim(Lines(t_content)[1]), TagMap)
  /\ t_out[2] = t_out[3]

====
